---- MODULE Spec2Model ----
\* Model of the unified game launcher: the per-platform authentication store
\* (depreciated-python/src/core/auth.py: PlaformAuth, UnifiedAuth) together with
\* the token behaviour of the platform adapters it drives (src/api/gog_api.py),
\* and the game registry (src/core/game_manager.py: GameInfo, GameManager).
EXTENDS Integers, FiniteSets, Sequences, TLC

\* ---------------------------------------------------------------- bounds ----
\* Largest value of the wall clock (datetime.now()) explored.
MaxTime == 1
\* ----------------------------------------------------------- value domains --
Platforms == {"steam", "gog"}
\* The access tokens each platform's authorization server may issue, and the
\* refresh tokens any of them may issue.
Tokens == [steam |-> {"s1", "s2"}, gog |-> {"g1"}]
RefreshTokens == {"r1"}
\* The instants at which an authorization server lets its tokens expire.
ExpiryInstants == {1}
\* The user id a full adapter object carries.
UserId == "u1"
\* Python's None for string-valued attributes.
None == "None"
\* Python's None for the datetime-valued attribute token_expires_at.
NoneT == -1
\* JSON null in the token_expires_at column of auth_data.json.
JsonNull == <<>>

\* ------------------------------------------------------------- variables ----
VARIABLES
    now,             \* datetime.now()
    platform_auths,  \* UnifiedAuth.platform_auths : platform -> PlaformAuth
    platform_apis,   \* UnifiedAuth.platform_apis  : platform -> adapter object
    auth_file,       \* <config_path>/auth_data.json
    started,         \* FALSE while UnifiedLauncher.__init__ is still registering
    ret,             \* observation of the last step: operation, argument,
                     \* return value, and what the adapter capability returned
    games,           \* GameManager.games : game name -> GameInfo
    gm_platform_apis, \* GameManager.platform_apis, its keys in insertion order
    mapping_file,    \* <config_path>/game_mappings.json
    owned_content,   \* UnifiedLibrary.owned_content : game -> platform -> ids
    shared_installations, \* UnifiedLibrary.shared_installations
    content_file,    \* <config_path>/content_mappings.json
    threads,         \* callers inside _process_installation at the same time
    flow             \* an adapter's browser-based authenticate in progress

\* The state of the authentication store and of the game registry.
authVars == <<now, platform_auths, platform_apis, auth_file, started>>
gameVars == <<games, gm_platform_apis, mapping_file>>
libVars == <<owned_content, shared_installations, content_file>>
otherVars == <<libVars, threads, flow>>

vars == <<now, platform_auths, platform_apis, auth_file, started, ret, games,
          gm_platform_apis, mapping_file, owned_content, shared_installations,
          content_file, threads, flow>>

\* The empty dict.
EmptyDict == [p \in {} |-> None]

\* d[k] = v for a dict modelled as a function with a finite domain.
DictSet(d, k, v) == [p \in (DOMAIN d) \cup {k} |-> IF p = k THEN v ELSE d[p]]

\* del d[k]
DictDel(d, k) == [p \in (DOMAIN d) \ {k} |-> d[p]]

\* ------------------------------------------------------------ PlaformAuth ---
\* PlaformAuth.__init__: a session with no tokens, no expiry and no user id.
PlaformAuth(platform) ==
    [platform |-> platform,
     access_token |-> None,
     refresh_token |-> None,
     token_expires_at |-> NoneT,
     user_id |-> None]

\* PlaformAuth.is_authenticated at clock value t.
is_authenticated_at(auth, t) ==
    /\ auth.access_token # None
    /\ auth.token_expires_at # NoneT
    /\ t < auth.token_expires_at

is_authenticated(auth) == is_authenticated_at(auth, now)

\* ------------------------------------------------------ datetime <-> JSON ---
\* datetime.isoformat(): the ISO-8601 text of an instant.
isoformat(t) == <<t>>

\* datetime.fromisoformat(): the instant an ISO-8601 text denotes.
fromisoformat(s) == s[1]

\* ------------------------------------------------------------- the adapter --
\* A freshly constructed adapter object. "full" tells whether the object exposes
\* all four attributes save_auth_data reads (access_token, refresh_token,
\* user_id, token_expires_at); the adapters under src/api expose at most the two
\* token attributes.
NewApi(full) ==
    [access_token |-> None,
     refresh_token |-> None,
     token_expires_at |-> NoneT,
     user_id |-> IF full THEN UserId ELSE None,
     full |-> full]

\* The expiry instants a full adapter may record when it obtains a token at
\* the current instant: none, or one of the instants still ahead.
ApiExpiry(api) ==
    IF api.full THEN {NoneT} \cup {e \in ExpiryInstants : now < e} ELSE {NoneT}

\* Adapter objects after a successful adapter.authenticate(): access and refresh
\* token are both set (GOGAPI._get_tokens returns bool(access and refresh)).
ApiAfterAuthenticate(platform, api) ==
    {[api EXCEPT !.access_token = a, !.refresh_token = r,
                 !.token_expires_at = e] :
        a \in Tokens[platform], r \in RefreshTokens, e \in ApiExpiry(api)}

\* Adapter objects after a successful adapter.refresh_auth_token(): the access
\* token is set, the refresh token is whatever the token endpoint returned,
\* None when it issued no new one (GOGAPI.refresh_auth_token).
ApiAfterRefresh(platform, api) ==
    {[api EXCEPT !.access_token = a, !.refresh_token = r,
                 !.token_expires_at = e] :
        a \in Tokens[platform], r \in RefreshTokens \cup {None}, e \in ApiExpiry(api)}

\* ------------------------------------------------------------ persistence ---
NoFile == [exists |-> FALSE, data |-> EmptyDict]

\* No browser-based authenticate is in progress: no HTTPServer exists, so no
\* port is bound and no thread is inside handle_request.
NoFlow ==
    [pc |-> "idle", elapsed |-> 0, auth_code |-> None, listening |-> FALSE,
     waiting |-> FALSE]

\* What the constructors of GameManager and UnifiedLibrary leave when the
\* configuration directory holds no file, with no call in progress.
NothingElse ==
    /\ mapping_file = NoFile
    /\ owned_content = EmptyDict
    /\ shared_installations = EmptyDict
    /\ content_file = NoFile
    /\ threads = EmptyDict
    /\ flow = NoFlow

\* One entry of auth_data.json read back into a PlaformAuth.
LoadedAuth(platform, data) ==
    [platform |-> platform,
     access_token |-> data.access_token,
     refresh_token |-> data.refresh_token,
     token_expires_at |-> IF data.token_expires_at # JsonNull
                          THEN fromisoformat(data.token_expires_at)
                          ELSE NoneT,
     user_id |-> data.user_id]

\* UnifiedAuth._load_auth_data: the session map after loading file into auths.
LoadAuthData(auths, file) ==
    IF ~file.exists THEN auths
    ELSE [p \in (DOMAIN auths) \cup (DOMAIN file.data) |->
            IF p \in DOMAIN file.data THEN LoadedAuth(p, file.data[p])
            ELSE auths[p]]

\* The JSON object save_auth_data builds for one entry of the dict it iterates.
AuthDataEntry(auth) ==
    [access_token |-> auth.access_token,
     refresh_token |-> auth.refresh_token,
     token_expires_at |-> IF auth.token_expires_at # NoneT
                          THEN isoformat(auth.token_expires_at)
                          ELSE JsonNull,
     user_id |-> auth.user_id]

\* UnifiedAuth.save_auth_data: the file afterwards. The loop runs over
\* platform_apis; an adapter lacking one of the attributes raises
\* AttributeError before the file is opened, and a failing open (io_ok = FALSE)
\* raises as well; either exception is caught and logged, the file stays.
SaveAuthData(apis, file, io_ok) ==
    IF (\E p \in DOMAIN apis : ~apis[p].full) \/ ~io_ok THEN file
    ELSE [exists |-> TRUE,
          data |-> [p \in DOMAIN apis |-> AuthDataEntry(apis[p])]]

\* ---------------------------------------------------------------- Init ------
\* The observation left by a call.
Ret(op, platform, result, adapter) ==
    [platform |-> platform, op |-> op, result |-> result, adapter |-> adapter]

\* UnifiedAuth.__init__ on a fresh installation: no auth_data.json yet.
Init ==
    /\ now = 0
    /\ auth_file = NoFile
    /\ platform_apis = EmptyDict
    /\ platform_auths = LoadAuthData(EmptyDict, NoFile)
    /\ started = FALSE
    /\ ret = Ret("__init__", None, None, None)
    /\ games = EmptyDict
    /\ gm_platform_apis = <<>>
    /\ NothingElse

\* ------------------------------------------------------------- operations ---
\* A new process: UnifiedAuth.__init__ runs again and loads auth_data.json.
Restart ==
    /\ platform_apis' = EmptyDict
    /\ platform_auths' = LoadAuthData(EmptyDict, auth_file)
    /\ started' = FALSE
    /\ ret' = Ret("__init__", None, None, None)
    /\ UNCHANGED <<now, auth_file>>
    /\ UNCHANGED gameVars
    /\ UNCHANGED otherVars

\* Time passes.
Tick ==
    /\ now < MaxTime
    /\ now' = now + 1
    /\ ret' = Ret("tick", None, None, None)
    /\ UNCHANGED <<platform_auths, platform_apis, auth_file, started>>
    /\ UNCHANGED gameVars
    /\ UNCHANGED otherVars

\* The session map after register_platform_api(platform, _): the membership
\* test reads platform_apis after the adapter was stored in it.
RegisteredAuths(apis1, auths, platform) ==
    IF platform \notin DOMAIN apis1
    THEN DictSet(auths, platform, PlaformAuth(platform))
    ELSE auths

\* UnifiedAuth.register_platform_api(platform, api_instance), called by
\* UnifiedLauncher._setup_platform_integrations while the launcher is built.
register_platform_api(platform, api_instance) ==
    LET apis1 == DictSet(platform_apis, platform, api_instance) IN
    /\ ~started
    /\ platform_apis' = apis1
    /\ platform_auths' = RegisteredAuths(apis1, platform_auths, platform)
    /\ ret' = Ret("register_platform_api", platform, None, None)
    /\ UNCHANGED <<now, auth_file, started>>
    /\ UNCHANGED gameVars
    /\ UNCHANGED otherVars

\* AlreadyAuthenticated with the test inverted, as in get_access_token.
AlreadyAuthenticated_inverted(auths, platform) ==
    /\ platform \in DOMAIN auths
    /\ ~is_authenticated(auths[platform])

\* Whether authenticate(platform) returns True at once, without the adapter.
AlreadyAuthenticated(auths, platform) ==
    /\ platform \in DOMAIN auths
    /\ is_authenticated(auths[platform])

\* The session after authenticate captured the adapter's tokens.
AuthenticatedAuth(auth, api) ==
    [auth EXCEPT !.access_token = api.access_token,
                 !.refresh_token = api.refresh_token]

\* authenticate with the adapter's tokens captured before its return value is
\* looked at, so that a failed adapter call overwrites the session as well.
authenticate_capturing_on_failure(platform) ==
    /\ started' = TRUE
    /\ UNCHANGED now
    /\ UNCHANGED gameVars
    /\ UNCHANGED otherVars
    /\ IF platform \notin DOMAIN platform_apis
       THEN /\ ret' = Ret("authenticate", platform, "False", None)
            /\ UNCHANGED <<platform_auths, platform_apis, auth_file>>
       ELSE IF AlreadyAuthenticated(platform_auths, platform)
       THEN /\ ret' = Ret("authenticate", platform, "True", None)
            /\ UNCHANGED <<platform_auths, platform_apis, auth_file>>
       ELSE
         \/ /\ ret' = Ret("authenticate", platform, "False", "False")
            /\ platform_auths' =
                  IF platform \in DOMAIN platform_auths
                  THEN [platform_auths EXCEPT ![platform] =
                          AuthenticatedAuth(platform_auths[platform],
                                            platform_apis[platform])]
                  ELSE platform_auths
            /\ UNCHANGED <<platform_apis, auth_file>>
         \/ \E api \in ApiAfterAuthenticate(platform, platform_apis[platform]),
               io_ok \in BOOLEAN :
               LET apis1 == DictSet(platform_apis, platform, api) IN
               /\ platform_apis' = apis1
               /\ IF platform \notin DOMAIN platform_auths
                  THEN /\ ret' = Ret("authenticate", platform, "False",
                                     "True")
                       /\ UNCHANGED <<platform_auths, auth_file>>
                  ELSE /\ platform_auths' =
                             [platform_auths EXCEPT ![platform] =
                                AuthenticatedAuth(platform_auths[platform], api)]
                       /\ auth_file' = SaveAuthData(apis1, auth_file, io_ok)
                       /\ ret' = Ret("authenticate", platform, "True",
                                     "True")

\* UnifiedAuth.authenticate(platform)
authenticate(platform) ==
    /\ started' = TRUE
    /\ UNCHANGED now
    /\ UNCHANGED gameVars
    /\ UNCHANGED otherVars
    /\ IF platform \notin DOMAIN platform_apis
       THEN /\ ret' = Ret("authenticate", platform, "False", None)
            /\ UNCHANGED <<platform_auths, platform_apis, auth_file>>
       ELSE IF AlreadyAuthenticated(platform_auths, platform)
       THEN /\ ret' = Ret("authenticate", platform, "True", None)
            /\ UNCHANGED <<platform_auths, platform_apis, auth_file>>
       ELSE
         \/ \* api.authenticate() returns False or raises
            /\ ret' = Ret("authenticate", platform, "False", "False")
            /\ UNCHANGED <<platform_auths, platform_apis, auth_file>>
         \/ \* api.authenticate() returns True
            \E api \in ApiAfterAuthenticate(platform, platform_apis[platform]),
               io_ok \in BOOLEAN :
               LET apis1 == DictSet(platform_apis, platform, api) IN
               /\ platform_apis' = apis1
               /\ IF platform \notin DOMAIN platform_auths
                  THEN \* self.platform_auths[platform] raises KeyError
                       /\ ret' = Ret("authenticate", platform, "False",
                                     "True")
                       /\ UNCHANGED <<platform_auths, auth_file>>
                  ELSE /\ platform_auths' =
                             [platform_auths EXCEPT ![platform] =
                                AuthenticatedAuth(platform_auths[platform], api)]
                       /\ auth_file' = SaveAuthData(apis1, auth_file, io_ok)
                       /\ ret' = Ret("authenticate", platform, "True",
                                     "True")

\* The session after refresh_token captured the adapter's tokens.
RefreshedAuth(auth, api) ==
    [auth EXCEPT !.access_token = api.access_token,
                 !.refresh_token = api.refresh_token]

\* Whether refresh_token(platform) hands the call to api.refresh_auth_token().
RefreshDelegates(auths, apis, platform) ==
    /\ platform \in DOMAIN apis
    /\ platform \in DOMAIN auths

\* UnifiedAuth.refresh_token(platform)
refresh_token(platform) ==
    /\ started' = TRUE
    /\ UNCHANGED now
    /\ UNCHANGED gameVars
    /\ UNCHANGED otherVars
    /\ IF ~RefreshDelegates(platform_auths, platform_apis, platform)
       THEN /\ ret' = Ret("refresh_token", platform, "False", None)
            /\ UNCHANGED <<platform_auths, platform_apis, auth_file>>
       ELSE
         \/ \* api.refresh_auth_token() returns False or raises
            /\ ret' = Ret("refresh_token", platform, "False", "False")
            /\ UNCHANGED <<platform_auths, platform_apis, auth_file>>
         \/ \* api.refresh_auth_token() returns True; the adapters refuse when
            \* they hold no refresh token themselves
            /\ platform_apis[platform].refresh_token # None
            /\ \E api \in ApiAfterRefresh(platform, platform_apis[platform]),
                  io_ok \in BOOLEAN :
                  LET apis1 == DictSet(platform_apis, platform, api) IN
                  /\ platform_apis' = apis1
                  /\ platform_auths' =
                        [platform_auths EXCEPT ![platform] =
                            RefreshedAuth(platform_auths[platform], api)]
                  /\ auth_file' = SaveAuthData(apis1, auth_file, io_ok)
                  /\ ret' = Ret("refresh_token", platform, "True", "True")

\* UnifiedAuth.logout(platform)
logout(platform) ==
    /\ started' = TRUE
    /\ ret' = Ret("logout", platform, None, None)
    /\ IF platform \in DOMAIN platform_auths
       THEN /\ platform_auths' = DictDel(platform_auths, platform)
            /\ \E io_ok \in BOOLEAN :
                  auth_file' = SaveAuthData(platform_apis, auth_file, io_ok)
       ELSE UNCHANGED <<platform_auths, auth_file>>
    /\ UNCHANGED <<now, platform_apis>>
    /\ UNCHANGED gameVars
    /\ UNCHANGED otherVars

\* The exception calling a dict raises.
TypeError == "TypeError"

\* UnifiedAuth.get_access_token(platform): line 200 calls the dict
\* platform_auths instead of subscripting it, which raises TypeError before
\* anything is looked up.
get_access_token(platform) ==
    /\ started' = TRUE
    /\ ret' = Ret("get_access_token", platform, TypeError, None)
    /\ UNCHANGED <<now, platform_auths, platform_apis, auth_file>>
    /\ UNCHANGED gameVars
    /\ UNCHANGED otherVars

\* UnifiedAuth.save_auth_data() called on its own.
save_auth_data ==
    /\ started' = TRUE
    /\ \E io_ok \in BOOLEAN :
          auth_file' = SaveAuthData(platform_apis, auth_file, io_ok)
    /\ ret' = Ret("save_auth_data", None, None, None)
    /\ UNCHANGED <<now, platform_auths, platform_apis>>
    /\ UNCHANGED gameVars
    /\ UNCHANGED otherVars

Register == \E p \in Platforms, full \in BOOLEAN :
                register_platform_api(p, NewApi(full))
Authenticate == \E p \in Platforms : authenticate(p)
RefreshToken == \E p \in Platforms : refresh_token(p)
Logout == \E p \in Platforms : logout(p)
GetAccessToken == \E p \in Platforms : get_access_token(p)

Next ==
    \/ Restart
    \/ Tick
    \/ Register
    \/ Authenticate
    \/ RefreshToken
    \/ Logout
    \/ GetAccessToken
    \/ save_auth_data

Spec == Init /\ [][Next]_vars

\* ============================================================================
\* The game registry: GameManager of src/src/core/game_manager.py.
\* ============================================================================
\* ---------------------------------------------------------------- bounds ----
\* Longest list an adapter's get_installed_games returns.
MaxItems == 2

\* ----------------------------------------------------------- value domains --
\* The members of Platform whose adapters report installed games.
GamePlatforms == {"steam", "epic"}

\* A key that the dict of a scan item does not hold (d[k] raises KeyError,
\* d.get(k) is None); None is a key held with the value None.
Missing == "Missing"

\* The dict one adapter reports for one installed game.
Item(name, app_name, app_id, install_dir, launch_exe, version, size_on_disk) ==
    [name |-> name, app_name |-> app_name, app_id |-> app_id,
     install_dir |-> install_dir, launch_exe |-> launch_exe,
     version |-> version, size_on_disk |-> size_on_disk]

\* SteamAPI.get_installed_games: name, app_id, install_dir and size_on_disk
\* are always keys of the dict; SizeOnDisk may be absent from the manifest,
\* which makes size_on_disk None.
SteamItem(name, app_id, install_dir, size_on_disk) ==
    Item(name, Missing, app_id, install_dir, Missing, Missing, size_on_disk)

\* EpicAPI.get_installed_games: app_name, app_id, install_dir, version and
\* launch_exe are always keys of the dict, any of them may be None; there is
\* no name and no size_on_disk key.
EpicItem(app_name, app_id, install_dir, version, launch_exe) ==
    Item(Missing, app_name, app_id, install_dir, launch_exe, version, Missing)

SteamItems ==
    { SteamItem("Doom", "1", "/a", "7"),
      SteamItem("Doom", "2", "/b", "9"),
      SteamItem("Doom", "2", "/b", None) }

EpicItems ==
    { EpicItem("Doom", "x", "/e", "2.0", "d.exe"),
      EpicItem("doom ", "x", "/e", None, "d.exe"),
      EpicItem("Doom", "y", None, "2.0", "d.exe"),
      EpicItem(None, "x", "/e", "2.0", "d.exe") }

ItemsOf(platform) == IF platform = "steam" THEN SteamItems ELSE EpicItems

\* The items the adapters report during a scan cycle.
ScanItemsOf(platform) ==
    IF platform = "steam"
    THEN SteamItems
    ELSE { EpicItem("Doom", "x", "/e", "2.0", "d.exe"),
           EpicItem("doom ", "x", "/e", None, "d.exe") }

\* ------------------------------------------------------------ dict, Path, int
\* d.get(k)
get(d, k) == IF d[k] = Missing THEN None ELSE d[k]

\* d.get(k, default)
get_default(d, k, default) == IF d[k] = Missing THEN default ELSE d[k]

\* Path(s): a path is the sequence of its components.
Path(s) == <<s>>

\* path / s
PathJoin(path, s) == Append(path, s)

\* f"{game_name}.exe"
ExeName(game_name) == <<game_name, ".exe">>

\* The decimal strings of the model and their values.
Decimal == [s \in {"7", "9"} |-> IF s = "7" THEN 7 ELSE 9]

\* int(x) raises for None (TypeError) and for a non-numeric string
\* (ValueError).
int_raises(x) == x \notin DOMAIN Decimal

\* int(x)
int(x) == Decimal[x]

\* int(game_data.get('size_on_disk', 0)) raises.
SizeRaises(game_data) ==
    game_data.size_on_disk # Missing /\ int_raises(game_data.size_on_disk)

\* int(game_data.get('size_on_disk', 0)); int(0) is 0.
SizeOf(game_data) ==
    IF game_data.size_on_disk = Missing THEN 0
    ELSE int(game_data.size_on_disk)

\* ---------------------------------------------------- GameInfo, installation
GameInstallation(platform, install_path, executable_path, app_id, version, size) ==
    [platform |-> platform, app_id |-> app_id, version |-> version,
     install_path |-> install_path, executable_path |-> executable_path,
     size |-> size]

\* The keys of a dict after d[k] = v, in the order in which the dict
\* enumerates them: a new key comes last, a known key keeps its place.
KeysAfterSet(keys, k) ==
    IF \E i \in 1..Len(keys) : keys[i] = k THEN keys ELSE Append(keys, k)

\* GameInfo.__init__; platform_order is list(platforms.keys()), the order in
\* which the dict platforms enumerates its keys.
GameInfo(name, platforms, order) ==
    [name |-> name, platforms |-> platforms, installations |-> EmptyDict,
     active_platform |-> None, platform_order |-> order]

\* add_installation that adds the size of the installation it replaces to the
\* new one instead of replacing it.
add_installation_accumulating(info, installation) ==
    [info EXCEPT
       !.installations =
          DictSet(@, installation.platform,
                  IF installation.platform \in DOMAIN @
                  THEN [installation EXCEPT
                          !.size = @ + info.installations[
                                          installation.platform].size]
                  ELSE installation),
       !.active_platform = IF @ = None THEN installation.platform ELSE @]

\* GameInfo.add_installation
add_installation(info, installation) ==
    [info EXCEPT
       !.installations = DictSet(@, installation.platform, installation),
       !.active_platform = IF @ = None THEN installation.platform ELSE @]

\* ------------------------------------------------- _process_installation ----
\* game_data.get('name') or game_data.get('app_name')
GameNameOf(game_data) ==
    IF get(game_data, "name") \notin {None, ""}
    THEN get(game_data, "name")
    ELSE get(game_data, "app_name")

\* The binding step with the binding map of an existing game replaced by the
\* new binding alone.
WithBinding_replacing(gs, game_name, platform, app_id) ==
    IF game_name \notin DOMAIN gs
    THEN DictSet(gs, game_name,
                 GameInfo(game_name, DictSet(EmptyDict, platform, app_id),
                          <<platform>>))
    ELSE [gs EXCEPT ![game_name].platforms =
                       DictSet(EmptyDict, platform, app_id),
                    ![game_name].platform_order = <<platform>>]

\* Lines 100-104: the game is created with the binding, or the binding of an
\* existing game is set.
WithBinding(gs, game_name, platform, app_id) ==
    IF game_name \notin DOMAIN gs
    THEN DictSet(gs, game_name,
                 GameInfo(game_name, DictSet(EmptyDict, platform, app_id),
                          <<platform>>))
    ELSE [gs EXCEPT ![game_name].platforms = DictSet(@, platform, app_id),
                    ![game_name].platform_order = KeysAfterSet(@, platform)]

\* Lines 106-122 raise: Path(None) and install_path / None are TypeErrors, a
\* missing key is a KeyError, int(None) is a TypeError.
InstallationRaises(platform, game_data) ==
    \/ game_data.install_dir \in {Missing, None}
    \/ platform = "epic" /\ game_data.launch_exe \in {Missing, None}
    \/ SizeRaises(game_data)

\* Lines 106-122: the GameInstallation built from the item.
InstallationOf(platform, game_name, game_data) ==
    LET install_path == Path(game_data.install_dir)
        exe_path == IF platform = "epic"
                    THEN PathJoin(install_path, game_data.launch_exe)
                    ELSE IF platform = "steam"
                    THEN PathJoin(install_path, ExeName(game_name))
                    ELSE install_path
    IN GameInstallation(platform, install_path, exe_path, game_data.app_id,
                        get_default(game_data, "version", "1.0"),
                        SizeOf(game_data))

\* GameManager._process_installation as a function of the registry: the
\* registry it leaves and whether it raised.
ProcessInstallation(gs, platform, game_data) ==
    LET game_name == GameNameOf(game_data) IN
    IF game_name \in {None, ""}
    THEN [games |-> gs, raised |-> FALSE]
    ELSE IF game_data.app_id = Missing
    THEN [games |-> gs, raised |-> TRUE]
    ELSE LET gs1 == WithBinding(gs, game_name, platform, game_data.app_id) IN
         IF InstallationRaises(platform, game_data)
         THEN [games |-> gs1, raised |-> TRUE]
         ELSE [games |-> [gs1 EXCEPT ![game_name] =
                            add_installation(@,
                               InstallationOf(platform, game_name, game_data))],
               raised |-> FALSE]

\* ------------------------------------------------------ scan_installations --
\* What get_installed_games of an adapter does in one scan cycle: it raises,
\* or it returns a list of items.
Raise == "raise"

\* The lists get_installed_games returns: one dict for each manifest file,
\* so no dict occurs twice.
ItemLists(platform) ==
    { l \in UNION { [1..n -> ScanItemsOf(platform)] : n \in 0..MaxItems } :
         \A i \in 1..Len(l), j \in 1..Len(l) : i # j => l[i] # l[j] }

Raised == [games |-> <<>>, raised |-> TRUE]

Returned(installed_games) == [games |-> installed_games, raised |-> FALSE]

InstalledGames(platform) ==
    {Raised} \cup { Returned(l) : l \in ItemLists(platform) }

\* The loop of lines 89-90 from item i on; an item that raises ends the loop
\* (the except of line 91 is outside it).
RECURSIVE ProcessItems(_, _, _, _)
ProcessItems(gs, platform, installed_games, i) ==
    IF i > Len(installed_games) THEN gs
    ELSE LET r == ProcessInstallation(gs, platform, installed_games[i]) IN
         IF r.raised THEN r.games
         ELSE ProcessItems(r.games, platform, installed_games, i + 1)

\* A scan whose try statement is around the loop over the adapters: the first
\* adapter that raises ends the cycle.
RECURSIVE ScanFrom_aborting(_, _, _, _)
ScanFrom_aborting(gs, apis, installed, i) ==
    IF i > Len(apis) THEN gs
    ELSE LET platform == apis[i] IN
         IF installed[platform].raised
         THEN gs
         ELSE ScanFrom_aborting(
                 ProcessItems(gs, platform, installed[platform].games, 1),
                 apis, installed, i + 1)

\* A scan that first forgets what it knew of a platform whose adapter answers,
\* so that a game the adapter no longer reports loses its binding.
RECURSIVE ScanFrom_pruning(_, _, _, _)
ScanFrom_pruning(gs, apis, installed, i) ==
    IF i > Len(apis) THEN gs
    ELSE LET platform == apis[i]
             pruned == [g \in DOMAIN gs |->
                          [gs[g] EXCEPT
                             !.platforms = DictDel(@, platform),
                             !.installations = DictDel(@, platform),
                             !.platform_order =
                                SelectSeq(@, LAMBDA q : q # platform)]]
         IN IF installed[platform].raised
            THEN ScanFrom_pruning(gs, apis, installed, i + 1)
            ELSE ScanFrom_pruning(
                    ProcessItems(pruned, platform, installed[platform].games,
                                 1),
                    apis, installed, i + 1)

\* The loop of lines 86-92 from the i-th registered adapter on.
RECURSIVE ScanFrom(_, _, _, _)
ScanFrom(gs, apis, installed, i) ==
    IF i > Len(apis) THEN gs
    ELSE LET platform == apis[i] IN
         IF installed[platform].raised
         THEN ScanFrom(gs, apis, installed, i + 1)
         ELSE ScanFrom(ProcessItems(gs, platform, installed[platform].games,
                                    1),
                       apis, installed, i + 1)

\* --------------------------------------------------------------- Init -------
\* The observation left by a call on the GameManager.
GRet(op, game, platform, arg, result) ==
    [platform |-> platform, op |-> op, result |-> result, game |-> game,
     arg |-> arg]

\* GameManager.__init__ with no game_mappings.json; the UnifiedAuth beside it
\* is the freshly constructed one.
InitGames ==
    /\ now = 0
    /\ auth_file = NoFile
    /\ platform_apis = EmptyDict
    /\ platform_auths = LoadAuthData(EmptyDict, NoFile)
    /\ started = FALSE
    /\ games = EmptyDict
    /\ gm_platform_apis = <<>>
    /\ NothingElse
    /\ ret = GRet("__init__", None, None, None, None)

\* ------------------------------------------------------------- operations ---
\* Whether an adapter is registered for the platform.
Registered(apis, platform) == \E i \in 1..Len(apis) : apis[i] = platform

\* GameManager.register_platform_api: platform_apis keeps the order in which
\* the platforms were first registered, which is the order of a scan.
GameManager_register_platform_api(platform) ==
    /\ gm_platform_apis' =
          IF Registered(gm_platform_apis, platform)
          THEN gm_platform_apis
          ELSE Append(gm_platform_apis, platform)
    /\ ret' = GRet("register_platform_api", None, platform, None, None)
    /\ UNCHANGED games
    /\ UNCHANGED authVars
    /\ UNCHANGED <<mapping_file, otherVars>>

\* GameManager._process_installation(platform, game_data)
process_installation(platform, game_data) ==
    LET r == ProcessInstallation(games, platform, game_data) IN
    /\ games' = r.games
    /\ ret' = GRet("_process_installation", GameNameOf(game_data), platform,
                   game_data, IF r.raised THEN Raise ELSE None)
    /\ UNCHANGED gm_platform_apis
    /\ UNCHANGED authVars
    /\ UNCHANGED <<mapping_file, otherVars>>

\* GameManager.scan_installations: get_installed_games is called on the
\* registered adapters only.
scan_installations ==
    \E steam \in InstalledGames("steam"), epic \in InstalledGames("epic") :
       LET installed == [p \in GamePlatforms |->
                           IF p = "steam" THEN steam ELSE epic]
       IN /\ \A p \in GamePlatforms :
                ~Registered(gm_platform_apis, p)
                   => installed[p] = Returned(<<>>)
          /\ games' = ScanFrom(games, gm_platform_apis, installed, 1)
          /\ ret' = GRet("scan_installations", None, None, installed, None)
          /\ UNCHANGED gm_platform_apis
          /\ UNCHANGED authVars
          /\ UNCHANGED <<mapping_file, otherVars>>

\* set_active_platform without the test that the platform is bound.
set_active_platform_unchecked(game_name, platform) ==
    /\ IF game_name \notin DOMAIN games
       THEN /\ ret' = GRet("set_active_platform", game_name, platform, None,
                           "False")
            /\ UNCHANGED games
       ELSE /\ games' = [games EXCEPT ![game_name].active_platform = platform]
            /\ ret' = GRet("set_active_platform", game_name, platform, None,
                           "True")
    /\ UNCHANGED gm_platform_apis
    /\ UNCHANGED authVars
    /\ UNCHANGED <<mapping_file, otherVars>>

\* GameManager.set_active_platform(game_name, platform)
set_active_platform(game_name, platform) ==
    /\ IF game_name \notin DOMAIN games
       THEN /\ ret' = GRet("set_active_platform", game_name, platform, None,
                           "False")
            /\ UNCHANGED games
       ELSE IF platform \notin DOMAIN games[game_name].platforms
       THEN /\ ret' = GRet("set_active_platform", game_name, platform, None,
                           "False")
            /\ UNCHANGED games
       ELSE /\ games' = [games EXCEPT ![game_name].active_platform = platform]
            /\ ret' = GRet("set_active_platform", game_name, platform, None,
                           "True")
    /\ UNCHANGED gm_platform_apis
    /\ UNCHANGED authVars
    /\ UNCHANGED <<mapping_file, otherVars>>

\* launch_platform with the active platform preferred to the given one.
LaunchPlatform_active_first(gs, game_name, platform) ==
    IF gs[game_name].active_platform # None
    THEN gs[game_name].active_platform
    ELSE platform

\* Line 137: platform or game_info.active_platform
LaunchPlatform(gs, game_name, platform) ==
    IF platform # None THEN platform ELSE gs[game_name].active_platform

\* launch_game has called no adapter.
NoCall == [platform |-> None, app_id |-> None]

\* Lines 132-151: the call launch_game makes to an adapter, the platform of
\* the adapter and the app id passed to it, or NoCall when it returns False
\* before it calls one.
Dispatch(gs, apis, game_name, platform) ==
    IF game_name \notin DOMAIN gs THEN NoCall
    ELSE LET launch_platform == LaunchPlatform(gs, game_name, platform) IN
         IF launch_platform = None THEN NoCall
         ELSE IF ~Registered(apis, launch_platform) THEN NoCall
         ELSE IF launch_platform \notin DOMAIN gs[game_name].platforms
         THEN NoCall
         ELSE IF gs[game_name].platforms[launch_platform] \in {None, ""}
         THEN NoCall
         ELSE [platform |-> launch_platform,
               app_id |-> gs[game_name].platforms[launch_platform]]

\* GameManager.launch_game(game_name, platform): the registry is only read;
\* the adapter's launch_game returns True or False, or raises (False).
launch_game(game_name, platform) ==
    /\ LET call == Dispatch(games, gm_platform_apis, game_name, platform) IN
       IF call = NoCall
       THEN ret' = GRet("launch_game", game_name, platform, call, "False")
       ELSE \E launched \in {"True", "False"} :
               ret' = GRet("launch_game", game_name, platform, call, launched)
    /\ UNCHANGED gameVars
    /\ UNCHANGED otherVars
    /\ UNCHANGED authVars

\* The names a caller passes: those the adapters report and an unknown one.
GameNames == {"Doom", "doom ", "Quake"}

GameRegister == \E p \in GamePlatforms : GameManager_register_platform_api(p)
Ingest == \E p \in GamePlatforms : \E game_data \in ItemsOf(p) :
             process_installation(p, game_data)
SetActivePlatform == \E n \in GameNames, p \in GamePlatforms :
                        set_active_platform(n, p)
LaunchGame == \E n \in GameNames, p \in GamePlatforms \cup {None} :
                 launch_game(n, p)

NextGames ==
    \/ GameRegister
    \/ Ingest
    \/ scan_installations
    \/ SetActivePlatform
    \/ LaunchGame

SpecGames == InitGames /\ [][NextGames]_vars

\* ============================================================================
\* The content ledger: UnifiedLibrary of src/src/core/library.py.
\* ============================================================================
\* ----------------------------------------------------------- value domains --
\* The platforms a game of the ledger is bound to.
LibPlatforms == {"steam", "epic", "gog"}

ContentIds == {"dlc1", "dlc2"}

\* The app id a platform binds the game to.
AppIdOf == [p \in LibPlatforms |->
              IF p = "steam" THEN "1" ELSE IF p = "epic" THEN "x" ELSE "g"]

\* The elements of a list.
Range(l) == { l[i] : i \in 1..Len(l) }

\* The lists without repetition over a set, up to a length.
OrderedSubsets(S, n) ==
    { l \in UNION { [1..k -> S] : k \in 0..n } :
         \A i \in 1..Len(l), j \in 1..Len(l) : i # j => l[i] # l[j] }

\* The lists of content ids passed to register_owned_content: every list
\* without repetition, and one that names an id twice.
ContentIdLists ==
    OrderedSubsets(ContentIds, Cardinality(ContentIds))
       \cup {<<"dlc1", "dlc1">>}

\* list(s) that stops after the first element.
list_truncating(s, enumeration) ==
    LET l == SelectSeq(enumeration, LAMBDA c : c \in s)
    IN IF Len(l) > 1 THEN SubSeq(l, 1, 1) ELSE l

\* list(s) for a set s: its elements in the order in which the process
\* enumerates sets of content ids.
list(s, enumeration) == SelectSeq(enumeration, LAMBDA c : c \in s)

\* The orders in which a process may enumerate sets of content ids.
Enumerations == { l \in OrderedSubsets(ContentIds, Cardinality(ContentIds)) :
                     Range(l) = ContentIds }

\* ------------------------------------------------------ game_mappings.json --
\* The JSON object save_game_mappings writes for one game; platform_order is
\* the order of the keys of the object "platforms".
MappingEntry(game_info) ==
    [platforms |-> game_info.platforms,
     platform_order |-> game_info.platform_order]

\* GameManager._load_game_mappings into an empty registry.
LoadGameMappings(file) ==
    IF ~file.exists THEN EmptyDict
    ELSE [g \in DOMAIN file.data |->
            GameInfo(g, file.data[g].platforms, file.data[g].platform_order)]

\* GameManager.save_game_mappings: the file a completed write leaves.
SaveGameMappings(gs) ==
    [exists |-> TRUE, data |-> [g \in DOMAIN gs |-> MappingEntry(gs[g])]]

\* A game_mappings.json that binds "Doom" to the platforms of order, in that
\* order.
MappingFileOf(order) ==
    [exists |-> TRUE,
     data |-> DictSet(EmptyDict, "Doom",
                 [platforms |-> [p \in Range(order) |-> AppIdOf[p]],
                  platform_order |-> order])]

\* The files game_mappings.json the ledger is started with.
MappingFiles ==
    {NoFile} \cup
    { MappingFileOf(order) :
         order \in OrderedSubsets(LibPlatforms, Cardinality(LibPlatforms)) }

\* --------------------------------------------------------- UnifiedLibrary ---
\* self.owned_content.get(game_name, {}).get(platform, set())
OwnedOf(owned, game_name, platform) ==
    IF game_name \notin DOMAIN owned THEN {}
    ELSE IF platform \notin DOMAIN owned[game_name] THEN {}
    ELSE owned[game_name][platform]

\* register_owned_content with the new list in place of the owned set.
RegisterOwned_replacing(owned, game_name, platform, content_ids) ==
    LET o1 == IF game_name \notin DOMAIN owned
              THEN DictSet(owned, game_name, EmptyDict) ELSE owned
    IN [o1 EXCEPT ![game_name] = DictSet(@, platform, Range(content_ids))]

\* UnifiedLibrary.register_owned_content, lines 96-100.
RegisterOwned(owned, game_name, platform, content_ids) ==
    LET o1 == IF game_name \notin DOMAIN owned
              THEN DictSet(owned, game_name, EmptyDict) ELSE owned
        o2 == IF platform \notin DOMAIN o1[game_name]
              THEN [o1 EXCEPT ![game_name] = DictSet(@, platform, {})]
              ELSE o1
    IN [o2 EXCEPT ![game_name][platform] = @ \cup Range(content_ids)]

\* str(path) for a Path: the text that Path() parses into the same path.
str(path) == [text_of |-> path]

\* Path(text) for a text str() made of a Path.
PathOfText(text) == text.text_of

\* UnifiedLibrary.save_content_mappings: the file a completed write leaves.
SaveContentMappings(owned, shared, enumeration) ==
    [exists |-> TRUE,
     data |-> [owned_content |->
                  [g \in DOMAIN owned |->
                     [p \in DOMAIN owned[g] |-> list(owned[g][p], enumeration)]],
               shared_installations |->
                  [g \in DOMAIN shared |->
                     [p \in DOMAIN shared[g] |-> str(shared[g][p])]]]]

\* UnifiedLibrary._load_content_mappings into the ledger __init__ has set up:
\* both dicts are replaced by what the file holds.
LoadContentMappings(owned, shared, file) ==
    IF ~file.exists
    THEN [owned_content |-> owned, shared_installations |-> shared]
    ELSE [owned_content |->
             [g \in DOMAIN file.data.owned_content |->
                [p \in DOMAIN file.data.owned_content[g] |->
                   Range(file.data.owned_content[g][p])]],
          shared_installations |->
             [g \in DOMAIN file.data.shared_installations |->
                [p \in DOMAIN file.data.shared_installations[g] |->
                   PathOfText(file.data.shared_installations[g][p])]]]

\* setup_shared_installation, lines 105-109: every platform of the list is
\* given the path.
SharedAfter(shared, game_name, platforms, install_path) ==
    LET s1 == IF game_name \in DOMAIN shared THEN shared
              ELSE DictSet(shared, game_name, EmptyDict)
    IN [s1 EXCEPT ![game_name] =
          [p \in (DOMAIN @) \cup Range(platforms) |->
             IF p \in Range(platforms) THEN install_path ELSE @[p]]]

\* UnifiedLibrary.get_available_platforms
get_available_platforms(gs, game_name) ==
    IF game_name \notin DOMAIN gs THEN <<>> ELSE gs[game_name].platform_order

\* The loop of optimize_storage that always keeps the platform it started
\* with.
RECURSIVE OptimalFrom_first(_, _, _, _, _, _)
OptimalFrom_first(owned, game_name, platforms, i, max_content, optimal_platform) ==
    IF i > Len(platforms) THEN optimal_platform
    ELSE OptimalFrom_first(owned, game_name, platforms, i + 1, max_content,
                           IF optimal_platform = None THEN platforms[i]
                           ELSE optimal_platform)

\* The loop of optimize_storage with >= in place of >.
RECURSIVE OptimalFrom_last(_, _, _, _, _, _)
OptimalFrom_last(owned, game_name, platforms, i, max_content, optimal_platform) ==
    IF i > Len(platforms) THEN optimal_platform
    ELSE LET content_count ==
                Cardinality(OwnedOf(owned, game_name, platforms[i]))
         IN IF content_count >= max_content /\ content_count > 0
            THEN OptimalFrom_last(owned, game_name, platforms, i + 1,
                                  content_count, platforms[i])
            ELSE OptimalFrom_last(owned, game_name, platforms, i + 1,
                                  max_content, optimal_platform)

\* The loop of lines 171-175 from the i-th platform on.
RECURSIVE OptimalFrom(_, _, _, _, _, _)
OptimalFrom(owned, game_name, platforms, i, max_content, optimal_platform) ==
    IF i > Len(platforms) THEN optimal_platform
    ELSE LET content_count ==
                Cardinality(OwnedOf(owned, game_name, platforms[i]))
         IN IF content_count > max_content
            THEN OptimalFrom(owned, game_name, platforms, i + 1,
                             content_count, platforms[i])
            ELSE OptimalFrom(owned, game_name, platforms, i + 1,
                             max_content, optimal_platform)

\* optimize_storage that returns a platform for a game without bindings.
OptimizeStorage_untested(gs, owned, game_name) ==
    IF game_name \notin DOMAIN gs THEN "steam"
    ELSE LET platforms == get_available_platforms(gs, game_name)
             optimal_platform ==
                OptimalFrom(owned, game_name, platforms, 1, 0, None)
         IN IF optimal_platform # None THEN optimal_platform ELSE "steam"

\* UnifiedLibrary.optimize_storage
OptimizeStorage(gs, owned, game_name) ==
    IF game_name \notin DOMAIN gs THEN None
    ELSE LET platforms == get_available_platforms(gs, game_name) IN
         IF platforms = <<>> THEN None
         ELSE LET optimal_platform ==
                     OptimalFrom(owned, game_name, platforms, 1, 0, None)
              IN IF optimal_platform # None THEN optimal_platform
                 ELSE platforms[1]

\* --------------------------------------------------------------- Init -------
\* GameManager.__init__ and UnifiedLibrary.__init__ with a game_mappings.json
\* and no content_mappings.json.
InitLibrary ==
    /\ now = 0
    /\ auth_file = NoFile
    /\ platform_apis = EmptyDict
    /\ platform_auths = LoadAuthData(EmptyDict, NoFile)
    /\ started = FALSE
    /\ mapping_file \in MappingFiles
    /\ games = LoadGameMappings(mapping_file)
    /\ gm_platform_apis = <<>>
    /\ owned_content = EmptyDict
    /\ shared_installations = EmptyDict
    /\ content_file = NoFile
    /\ threads = EmptyDict
    /\ flow = NoFlow
    /\ ret = GRet("__init__", None, None, None, None)

\* ------------------------------------------------------------- operations ---
\* UnifiedLibrary.register_owned_content(game_name, platform, content_ids)
register_owned_content(game_name, platform, content_ids) ==
    /\ owned_content' =
          RegisterOwned(owned_content, game_name, platform, content_ids)
    /\ \E enumeration \in Enumerations :
          content_file' = SaveContentMappings(owned_content',
                                              shared_installations,
                                              enumeration)
    /\ ret' = GRet("register_owned_content", game_name, platform, content_ids,
                   None)
    /\ UNCHANGED shared_installations
    /\ UNCHANGED <<authVars, gameVars, threads, flow>>

\* UnifiedLibrary.get_owned_content(game_name, platform)
get_owned_content(game_name, platform) ==
    /\ \E enumeration \in Enumerations :
          ret' = GRet("get_owned_content", game_name, platform, None,
                      list(OwnedOf(owned_content, game_name, platform),
                           enumeration))
    /\ UNCHANGED <<authVars, gameVars, otherVars>>

\* UnifiedLibrary.optimize_storage(game_name)
optimize_storage(game_name) ==
    /\ ret' = GRet("optimize_storage", game_name, None, None,
                   OptimizeStorage(games, owned_content, game_name))
    /\ UNCHANGED <<authVars, gameVars, otherVars>>

\* The names a caller of the ledger passes.
LibGames == {"Doom", "Quake"}

RegisterOwnedContent ==
    \E p \in LibPlatforms, content_ids \in ContentIdLists :
       register_owned_content("Doom", p, content_ids)
GetOwnedContent ==
    \E g \in LibGames, p \in LibPlatforms : get_owned_content(g, p)
OptimizeStorageCall == \E g \in LibGames : optimize_storage(g)

NextLibrary ==
    \/ RegisterOwnedContent
    \/ GetOwnedContent
    \/ OptimizeStorageCall

SpecLibrary == InitLibrary /\ [][NextLibrary]_vars

\* ----------------------------------------------- the ledger and its file ----
\* The shared installation directories a caller sets up.
SharedPaths == {Path("/s"), PathJoin(Path("/s"), "Doom")}

\* The platform lists a caller passes to setup_shared_installation.
SharedPlatformLists == {<<"steam">>, <<"steam", "epic">>}

\* UnifiedLibrary.setup_shared_installation(game_name, platforms, path)
setup_shared_installation(game_name, platforms, install_path) ==
    /\ shared_installations' =
          SharedAfter(shared_installations, game_name, platforms, install_path)
    /\ \E enumeration \in Enumerations :
          content_file' = SaveContentMappings(owned_content,
                                              shared_installations',
                                              enumeration)
    /\ ret' = GRet("setup_shared_installation", game_name, None, platforms,
                   install_path)
    /\ UNCHANGED owned_content
    /\ UNCHANGED <<authVars, gameVars, threads, flow>>

\* A new process: UnifiedLibrary.__init__ runs again and loads
\* content_mappings.json.
LibraryRestart ==
    LET loaded == LoadContentMappings(EmptyDict, EmptyDict, content_file) IN
    /\ owned_content' = loaded.owned_content
    /\ shared_installations' = loaded.shared_installations
    /\ ret' = GRet("__init__", None, None, None, None)
    /\ UNCHANGED content_file
    /\ UNCHANGED <<authVars, gameVars, threads, flow>>

\* GameManager.__init__ and UnifiedLibrary.__init__ on a fresh installation.
InitLedger ==
    /\ InitLibrary
    /\ mapping_file = NoFile

SetupSharedInstallation ==
    \E platforms \in SharedPlatformLists, install_path \in SharedPaths :
       setup_shared_installation("Doom", platforms, install_path)

NextLedger ==
    \/ RegisterOwnedContent
    \/ SetupSharedInstallation
    \/ GetOwnedContent
    \/ LibraryRestart

SpecLedger == InitLedger /\ [][NextLedger]_vars

\* ============================================================================
\* Two callers of GameManager._process_installation on one registry.
\* ============================================================================
\* GameManager holds no lock, so the statements of two calls that run on two
\* threads interleave.  A call is the statements of lines 95-100 (the name and
\* the test of line 100), the assignment of line 101 or 104, and lines 106-123
\* (the installation is built and added).
Callers == {"t1", "t2"}

\* A call of _process_installation(platform, game_data) before its first
\* statement.
Call(platform, game_data) ==
    [platform |-> platform, pc |-> "start", game_data |-> game_data]

\* The calls an adapter can make: one per item of its installed games.
Calls ==
    UNION { { Call(p, game_data) : game_data \in ItemsOf(p) } :
               p \in GamePlatforms }

\* GameManager.__init__ without game_mappings.json, and one call per caller.
InitConcurrent ==
    /\ now = 0
    /\ auth_file = NoFile
    /\ platform_apis = EmptyDict
    /\ platform_auths = LoadAuthData(EmptyDict, NoFile)
    /\ started = FALSE
    /\ games = EmptyDict
    /\ gm_platform_apis = <<>>
    /\ mapping_file = NoFile
    /\ owned_content = EmptyDict
    /\ shared_installations = EmptyDict
    /\ content_file = NoFile
    /\ threads \in [Callers -> Calls]
    /\ flow = NoFlow
    /\ ret = GRet("__init__", None, None, None, None)

\* What a step of a caller leaves alone.
CallFrame == UNCHANGED <<authVars, gm_platform_apis, mapping_file, libVars, flow>>

\* Lines 95-100: the name of the item, then the test game_name not in
\* self.games.
CallTest(t) ==
    LET c == threads[t]
        game_name == GameNameOf(c.game_data)
    IN /\ c.pc = "start"
       /\ threads' = [threads EXCEPT ![t].pc =
             IF game_name \in {None, ""} \/ c.game_data.app_id = Missing
             THEN "done"
             ELSE IF game_name \notin DOMAIN games THEN "create"
             ELSE "update"]
       /\ ret' = GRet("_process_installation", game_name, c.platform, t,
                      "line 100")
       /\ UNCHANGED games
       /\ CallFrame

\* Line 101: self.games[game_name] = GameInfo(game_name, {platform: app_id})
CallCreate(t) ==
    LET c == threads[t]
        game_name == GameNameOf(c.game_data)
    IN /\ c.pc = "create"
       /\ games' = DictSet(games, game_name,
                      GameInfo(game_name,
                               DictSet(EmptyDict, c.platform,
                                       c.game_data.app_id),
                               <<c.platform>>))
       /\ threads' = [threads EXCEPT ![t].pc = "install"]
       /\ ret' = GRet("_process_installation", game_name, c.platform, t,
                      "line 101")
       /\ CallFrame

\* Line 104: self.games[game_name].platforms[platform] = app_id
CallUpdate(t) ==
    LET c == threads[t]
        game_name == GameNameOf(c.game_data)
    IN /\ c.pc = "update"
       /\ games' = [games EXCEPT
                       ![game_name].platforms =
                          DictSet(@, c.platform, c.game_data.app_id),
                       ![game_name].platform_order =
                          KeysAfterSet(@, c.platform)]
       /\ threads' = [threads EXCEPT ![t].pc = "install"]
       /\ ret' = GRet("_process_installation", game_name, c.platform, t,
                      "line 104")
       /\ CallFrame

\* Lines 106-123: the installation is built, which may raise, and added to
\* the game self.games[game_name] names at that moment.
CallInstall(t) ==
    LET c == threads[t]
        game_name == GameNameOf(c.game_data)
    IN /\ c.pc = "install"
       /\ games' = IF InstallationRaises(c.platform, c.game_data)
                   THEN games
                   ELSE [games EXCEPT ![game_name] =
                           add_installation(@,
                              InstallationOf(c.platform, game_name,
                                             c.game_data))]
       /\ threads' = [threads EXCEPT ![t].pc = "done"]
       /\ ret' = GRet("_process_installation", game_name, c.platform, t,
                      "line 123")
       /\ CallFrame

NextConcurrent ==
    \E t \in Callers :
       \/ CallTest(t)
       \/ CallCreate(t)
       \/ CallUpdate(t)
       \/ CallInstall(t)

SpecConcurrent == InitConcurrent /\ [][NextConcurrent]_vars

\* ============================================================================
\* The browser-based authenticate of an adapter: GOGAPI.authenticate of
\* src/src/api/gog_api.py, called by UnifiedAuth.authenticate(Platform.GOG).
\* XboxAPI.authenticate_with_browser has the same statements.
\* ============================================================================
\* server_thread.join(timeout=300): the seconds the caller waits at most.
JoinTimeout == 300

\* The value of the query parameter "code" of a callback request.
AuthCodes == {"code"}

\* The files auth_data.json the launcher is started with: none, or one that
\* holds a session of gog without tokens.
FlowAuthFiles ==
    {NoFile,
     [exists |-> TRUE,
      data |-> DictSet(EmptyDict, "gog", AuthDataEntry(PlaformAuth("gog")))]}

\* UnifiedAuth.__init__ and the registration of the GOG adapter by
\* UnifiedLauncher._setup_platform_integrations.
InitFlow ==
    /\ now = 0
    /\ auth_file \in FlowAuthFiles
    /\ \E full \in BOOLEAN :
          platform_apis = DictSet(EmptyDict, "gog", NewApi(full))
    /\ platform_auths =
          RegisteredAuths(platform_apis, LoadAuthData(EmptyDict, auth_file),
                          "gog")
    /\ started = FALSE
    /\ ret = Ret("__init__", None, None, None)
    /\ games = EmptyDict
    /\ gm_platform_apis = <<>>
    /\ NothingElse

\* What a step of the flow leaves alone.
FlowFrame == UNCHANGED <<now, gameVars, libVars, threads>>

\* authenticate reaches api.authenticate(): an adapter is registered and the
\* session is not valid already.
CallsAdapter(platform) ==
    /\ platform \in DOMAIN platform_apis
    /\ ~AlreadyAuthenticated(platform_auths, platform)

\* join that waits for the thread without a timeout.
JoinReturns_untimed(f) == ~f.waiting

\* server_thread.join(timeout=300) returns: the thread has ended, or 300
\* seconds have passed.
JoinReturns(f) == ~f.waiting \/ f.elapsed = JoinTimeout

\* Lines 97-121: without a client id, or when _start_auth_server finds no free
\* port and raises, authenticate returns False; otherwise the HTTPServer is
\* bound, the browser is opened and the thread enters server.handle_request.
FlowBegin(client_id, port_free) ==
    /\ flow.pc = "idle"
    /\ CallsAdapter("gog")
    /\ started' = TRUE
    /\ IF client_id /\ port_free
       THEN /\ flow' = [pc |-> "join", elapsed |-> 0, auth_code |-> None,
                        listening |-> TRUE, waiting |-> TRUE]
            /\ ret' = Ret("authenticate", "gog", "join", None)
       ELSE /\ flow' = [flow EXCEPT !.pc = "returned"]
            /\ ret' = Ret("authenticate", "gog", "False", "False")
    /\ UNCHANGED <<platform_auths, platform_apis, auth_file>>
    /\ FlowFrame

\* A second passes while the caller is inside join and the thread inside
\* handle_request.
FlowTick ==
    /\ flow.pc = "join"
    /\ flow.waiting
    /\ flow.elapsed < JoinTimeout
    /\ flow' = [flow EXCEPT !.elapsed = @ + 1]
    /\ UNCHANGED <<authVars, ret>>
    /\ FlowFrame

\* A request arrives at the bound port: do_GET stores the code if the query
\* has one, handle_request returns and the thread ends.  When authenticate has
\* returned already, the thread held the last reference to the server, whose
\* socket is closed with it.
FlowCallback(code) ==
    /\ flow.waiting
    /\ flow' = [flow EXCEPT
                  !.auth_code = IF code # None THEN code ELSE @,
                  !.listening = IF flow.pc = "returned" THEN FALSE ELSE @,
                  !.waiting = FALSE]
    /\ UNCHANGED <<authVars, ret>>
    /\ FlowFrame

\* Lines 122-134 and the rest of UnifiedAuth.authenticate: join returns;
\* without a code authenticate returns False; with a code _get_tokens posts it
\* and authenticate returns what it returns, False when it raised or the
\* answer lacks a token.  No statement closes the server: its socket stays
\* bound for as long as the thread, which refers to it, is inside
\* handle_request.
FlowReturn ==
    /\ flow.pc = "join"
    /\ JoinReturns(flow)
    /\ flow' = [flow EXCEPT !.pc = "returned", !.listening = flow.waiting]
    /\ UNCHANGED started
    /\ FlowFrame
    /\ \/ /\ flow.auth_code = None
          /\ ret' = Ret("authenticate", "gog", "False", "False")
          /\ UNCHANGED <<platform_auths, platform_apis, auth_file>>
       \/ /\ flow.auth_code # None
          /\ ret' = Ret("authenticate", "gog", "False", "False")
          /\ UNCHANGED <<platform_auths, platform_apis, auth_file>>
       \/ /\ flow.auth_code # None
          /\ \E api \in ApiAfterAuthenticate("gog", platform_apis["gog"]),
                io_ok \in BOOLEAN :
                LET apis1 == DictSet(platform_apis, "gog", api) IN
                /\ platform_apis' = apis1
                /\ IF "gog" \notin DOMAIN platform_auths
                   THEN /\ ret' = Ret("authenticate", "gog", "False", "True")
                        /\ UNCHANGED <<platform_auths, auth_file>>
                   ELSE /\ platform_auths' =
                              [platform_auths EXCEPT !["gog"] =
                                 AuthenticatedAuth(platform_auths["gog"], api)]
                        /\ auth_file' = SaveAuthData(apis1, auth_file, io_ok)
                        /\ ret' = Ret("authenticate", "gog", "True", "True")

FlowBeginCall == \E client_id \in BOOLEAN, port_free \in BOOLEAN :
                    FlowBegin(client_id, port_free)
FlowCallbackRequest == \E code \in AuthCodes \cup {None} : FlowCallback(code)

NextFlow ==
    \/ FlowBeginCall
    \/ FlowTick
    \/ FlowCallbackRequest
    \/ FlowReturn

SpecFlow == InitFlow /\ [][NextFlow]_vars

\* The clock advances while the caller waits, and join(timeout=300) returns
\* once it can.
FairSpecFlow == SpecFlow /\ WF_vars(FlowTick) /\ WF_vars(FlowReturn)

\* ---------------------------------------------------------- properties ----
\* The validity predicate of the design: an access token is present and either
\* no expiry is set or the expiry is still ahead.
ValidPerDesign(auth) ==
    /\ auth.access_token # None
    /\ (auth.token_expires_at = NoneT \/ now < auth.token_expires_at)

\* C1: for every session, is_authenticated is true exactly when an access token
\* is present and either no expiry is set or the current time is before the
\* expiry; a session with an access token and no expiry is valid.
C1_ValidIffTokenAndNotExpired ==
    \A p \in DOMAIN platform_auths :
        is_authenticated(platform_auths[p]) <=> ValidPerDesign(platform_auths[p])

\* C2: whenever authenticate(p) returns success, the session of p is valid in
\* the state in which authenticate returns.
C2_AuthenticateSuccessIsValid ==
    (ret.op = "authenticate" /\ ret.result = "True")
        => /\ ret.platform \in DOMAIN platform_auths
           /\ is_authenticated(platform_auths[ret.platform])

\* C3: for a registered platform whose session is not valid, if the adapter's
\* authenticate capability succeeds then authenticate(p) returns success and the
\* session holds the access and refresh token the adapter produced.
C3_AdapterSuccessIsCaptured ==
    (ret.op = "authenticate" /\ ret.adapter = "True")
        => /\ ret.result = "True"
           /\ ret.platform \in DOMAIN platform_auths
           /\ platform_auths[ret.platform].access_token
                 = platform_apis[ret.platform].access_token
           /\ platform_auths[ret.platform].refresh_token
                 = platform_apis[ret.platform].refresh_token

\* C4: register(p) creates an empty session for p when none exists, and leaves
\* an existing session of p (tokens, expiry, user id) unchanged.
C4_RegisterCreatesOrKeepsSession ==
    [][\A p \in Platforms :
          (ret'.op = "register_platform_api" /\ ret'.platform = p)
              => /\ p \in DOMAIN platform_auths'
                 /\ platform_auths'[p] =
                       IF p \in DOMAIN platform_auths THEN platform_auths[p]
                       ELSE PlaformAuth(p)]_vars

\* C5 (as stated): if the session of p is already valid, authenticate(p) returns
\* success without invoking the adapter and without changing any session or
\* the durable snapshot.
C5_ValidSessionShortCircuits ==
    [][\A p \in Platforms :
          ( /\ ret'.op = "authenticate" /\ ret'.platform = p
            /\ p \in DOMAIN platform_auths
            /\ is_authenticated(platform_auths[p]) )
              => /\ ret'.result = "True"
                 /\ ret'.adapter = None
                 /\ UNCHANGED <<platform_auths, auth_file>>]_vars

\* C5 (amended): if an adapter is registered for p and the session of p is
\* already valid, authenticate(p) returns success without invoking the adapter
\* and without changing any session, any adapter or the durable snapshot.
C5_RegisteredValidSessionShortCircuits ==
    [][\A p \in Platforms :
          ( /\ ret'.op = "authenticate" /\ ret'.platform = p
            /\ p \in DOMAIN platform_apis
            /\ p \in DOMAIN platform_auths
            /\ is_authenticated(platform_auths[p]) )
              => /\ ret'.result = "True"
                 /\ ret'.adapter = None
                 /\ UNCHANGED <<platform_auths, platform_apis, auth_file>>]_vars

\* C5 witness: authenticate has just returned success for a registered platform
\* whose session is valid, and the adapter was not invoked.
C5_Witness ==
    /\ ret.op = "authenticate" /\ ret.result = "True" /\ ret.adapter = None
    /\ ret.platform \in DOMAIN platform_apis
    /\ ret.platform \in DOMAIN platform_auths
    /\ is_authenticated(platform_auths[ret.platform])

\* C6: refresh(p) on a session that holds no refresh token returns failure
\* without delegating to the adapter's refresh capability, and leaves the
\* session unchanged.
C6_NoRefreshTokenFailsWithoutAdapter ==
    [][\A p \in Platforms :
          ( /\ ret'.op = "refresh_token" /\ ret'.platform = p
            /\ p \in DOMAIN platform_auths
            /\ platform_auths[p].refresh_token = None )
              => /\ ret'.result = "False"
                 /\ ret'.adapter = None
                 /\ p \in DOMAIN platform_auths'
                 /\ platform_auths'[p] = platform_auths[p]]_vars

\* A session that holds an access token whose expiry has passed.
Expired(auth) ==
    /\ auth.access_token # None
    /\ auth.token_expires_at # NoneT
    /\ auth.token_expires_at <= now

\* C7: an expired session is valid again after a successful refresh(p), and
\* stays invalid as long as no refresh or authenticate of p succeeds.
C7_RefreshRevivesExpiredSession ==
    [][\A p \in Platforms :
          (p \in DOMAIN platform_auths /\ Expired(platform_auths[p]))
              => /\ (ret'.op = "refresh_token" /\ ret'.platform = p
                        /\ ret'.result = "True")
                     => /\ p \in DOMAIN platform_auths'
                        /\ is_authenticated_at(platform_auths'[p], now')
                 /\ ( /\ ret'.op \notin {"__init__"}
                      /\ ~(ret'.op \in {"refresh_token", "authenticate"}
                              /\ ret'.platform = p /\ ret'.result = "True")
                      /\ p \in DOMAIN platform_auths' )
                     => ~is_authenticated_at(platform_auths'[p], now')]_vars

\* C8: on a successful refresh(p) the session's access token becomes the
\* adapter's new one, and its refresh token becomes the adapter's new refresh
\* token only if one was issued; otherwise the one held before is kept.
C8_RefreshKeepsRefreshTokenUnlessReissued ==
    [][\A p \in Platforms :
          (ret'.op = "refresh_token" /\ ret'.platform = p
              /\ ret'.result = "True")
              => /\ platform_auths'[p].access_token
                       = platform_apis'[p].access_token
                 /\ platform_auths'[p].refresh_token =
                       IF platform_apis'[p].refresh_token # None
                       THEN platform_apis'[p].refresh_token
                       ELSE platform_auths[p].refresh_token]_vars

\* C9: after every mutating operation that returns success (authenticate,
\* refresh, logout), reloading the durable snapshot yields exactly the
\* in-memory sessions.
C9_SnapshotEqualsSessions ==
    [][( \/ (ret'.op = "authenticate" /\ ret'.result = "True"
                /\ ret'.adapter = "True")
         \/ (ret'.op = "refresh_token" /\ ret'.result = "True")
         \/ (ret'.op = "logout" /\ ret'.platform \in DOMAIN platform_auths) )
          => LoadAuthData(EmptyDict, auth_file') = platform_auths']_vars

\* C10: after logout(p) of a platform that had a session, p is not valid and
\* holds no token in memory, the durable snapshot holds no token for p, and
\* the sessions of all other platforms are unchanged.
C10_LogoutClearsAndPersists ==
    [][\A p \in Platforms :
          (ret'.op = "logout" /\ ret'.platform = p
              /\ p \in DOMAIN platform_auths)
              => /\ p \notin DOMAIN platform_auths'
                 /\ \/ p \notin DOMAIN auth_file'.data
                    \/ /\ auth_file'.data[p].access_token = None
                       /\ auth_file'.data[p].refresh_token = None
                 /\ \A q \in Platforms \ {p} :
                       /\ (q \in DOMAIN platform_auths')
                             <=> (q \in DOMAIN platform_auths)
                       /\ q \in DOMAIN platform_auths
                             => platform_auths'[q] = platform_auths[q]]_vars

\* C11: an authenticate(p) that fails (no adapter registered for p, the adapter
\* reports failure or raises) returns failure and leaves every session
\* unchanged; the platforms that were valid before are valid afterwards.
C11_FailedAuthenticateLeavesSessions ==
    [][\A p \in Platforms :
          (ret'.op = "authenticate" /\ ret'.platform = p)
              => /\ (p \notin DOMAIN platform_apis) => ret'.result = "False"
                 /\ (ret'.adapter = "False") => ret'.result = "False"
                 /\ (ret'.result = "False")
                       => /\ platform_auths' = platform_auths
                          /\ \A q \in DOMAIN platform_auths :
                                is_authenticated(platform_auths[q])
                                   => /\ q \in DOMAIN platform_auths'
                                      /\ is_authenticated_at(
                                            platform_auths'[q], now')]_vars

\* C11 witness: authenticate of one platform has just failed in its adapter
\* while another platform holds a valid session that differs from what its
\* adapter holds.
C11_Witness ==
    /\ ret.op = "authenticate" /\ ret.result = "False" /\ ret.adapter = "False"
    /\ ret.platform \in DOMAIN platform_auths
    /\ platform_auths[ret.platform].access_token # None
    /\ \E q \in DOMAIN platform_auths \ {ret.platform} :
          is_authenticated(platform_auths[q])

\* C12: when the durable write fails during a mutating operation, the
\* operation does not report plain success: its caller is told of the failure
\* (the in-memory mutation is kept).
C12_WriteFailureIsReported ==
    [][( /\ \/ (ret'.op \in {"authenticate", "refresh_token"}
                  /\ ret'.adapter = "True"
                  /\ ret'.platform \in DOMAIN platform_auths)
            \/ (ret'.op = "logout" /\ ret'.platform \in DOMAIN platform_auths)
         /\ \A p \in DOMAIN platform_apis' : platform_apis'[p].full
         /\ auth_file' # SaveAuthData(platform_apis', auth_file, TRUE) )
          => ret'.result \notin {"True", None}]_vars

\* ------------------------------------------------- properties: registry ----
\* Case folding and whitespace trimming of the display names of the model.
Fold(name) == IF name \in {"Doom", "doom "} THEN "doom" ELSE name

\* C13: two sightings whose display names are equal after case folding and
\* whitespace trimming are merged into one game: the registry never holds two
\* entries whose names fold to the same key.
C13_FoldedNamesAreMerged ==
    \A a \in DOMAIN games, b \in DOMAIN games : Fold(a) = Fold(b) => a = b

\* C14: ingest is idempotent: ingesting the item that has just been ingested
\* once more, for the same platform, leaves the registry as it is (the same
\* games, bindings, installations and active platforms).
C14_IngestIsIdempotent ==
    [][ret'.op = "_process_installation"
          => ProcessInstallation(games', ret'.platform, ret'.arg).games
                = games']_vars

\* C14 witness: an item has been ingested into a game that has the binding and
\* the installation of another platform as well.
C14_Witness ==
    /\ ret.op = "_process_installation" /\ ret.result = None
    /\ ret.game \in DOMAIN games
    /\ ret.platform \in DOMAIN games[ret.game].installations
    /\ games[ret.game].installations[ret.platform]
          = InstallationOf(ret.platform, ret.game, ret.arg)
    /\ \E q \in DOMAIN games[ret.game].installations : q # ret.platform

\* The active platform of a game in a registry, None for an unknown game.
ActiveOf(gs, game_name) ==
    IF game_name \in DOMAIN gs THEN gs[game_name].active_platform ELSE None

\* C15: first-writer-wins. An ingest that records a sighting of a game with no
\* active platform makes the ingesting platform the active one, and no ingest
\* and no scan changes an active platform that is set; so of two platforms
\* ingested for a new game the first is the active one.
C15_FirstWriterWins ==
    [][
       /\ (ret'.op \in {"_process_installation", "scan_installations"})
             => (\A g \in DOMAIN games :
                    (ActiveOf(games, g) # None)
                       => (ActiveOf(games', g) = ActiveOf(games, g)))
       /\ (ret'.op = "_process_installation" /\ ret'.game \in DOMAIN games'
               /\ ActiveOf(games, ret'.game) = None)
             => (ActiveOf(games', ret'.game) = ret'.platform)
      ]_vars

\* C16: in every reachable registry state the active platform of each game is
\* unset or one of the platforms of the game's binding map.
C16_ActivePlatformIsBound ==
    \A g \in DOMAIN games :
       \/ games[g].active_platform = None
       \/ games[g].active_platform \in DOMAIN games[g].platforms

\* C16 witness: a game bound to two platforms whose active platform has just
\* been set by set_active_platform to the one that was ingested last.
C16_Witness ==
    /\ ret.op = "set_active_platform" /\ ret.result = "True"
    /\ Cardinality(DOMAIN games[ret.game].platforms) = 2
    /\ games[ret.game].active_platform = ret.platform
    /\ ret.platform \notin DOMAIN games[ret.game].installations

\* C17: set_active_platform(game, p) returns success and makes p the active
\* platform exactly when the game is known and p is among its bindings; for
\* an unknown game or an unbound platform it returns failure and leaves the
\* registry, the active platform included, unchanged.
C17_SetActivePlatform ==
    [][(ret'.op = "set_active_platform")
          => LET g == ret'.game
                 p == ret'.platform
                 bound == g \in DOMAIN games /\ p \in DOMAIN games[g].platforms
             IN /\ (ret'.result = "True") <=> bound
                /\ ret'.result \in {"True", "False"}
                /\ bound => games' = [games EXCEPT ![g].active_platform = p]
                /\ ~bound => games' = games]_vars

\* C17 witness: set_active_platform has just failed for a known game with an
\* active platform, because the platform asked for is not bound to it.
C17_Witness ==
    /\ ret.op = "set_active_platform" /\ ret.result = "False"
    /\ ret.game \in DOMAIN games
    /\ ret.platform \notin DOMAIN games[ret.game].platforms
    /\ games[ret.game].active_platform \notin {None, ret.platform}

\* C18: the registry only grows: no ingest, scan, set_active_platform or
\* launch_game removes a game or a binding of a game, also when the scan of a
\* platform no longer reports the game.
C18_RegistryOnlyGrows ==
    [][\A g \in DOMAIN games :
          /\ g \in DOMAIN games'
          /\ DOMAIN games[g].platforms \subseteq DOMAIN games'[g].platforms]_vars

\* C18 witness: a scan in which the adapter of a registered platform returned
\* an empty list has ended, and a game is still bound to that platform.
C18_Witness ==
    /\ ret.op = "scan_installations"
    /\ \E p \in GamePlatforms :
          /\ Registered(gm_platform_apis, p)
          /\ ret.arg[p] = Returned(<<>>)
          /\ \E g \in DOMAIN games : p \in DOMAIN games[g].platforms

\* C19: re-ingesting a game for a platform replaces the installation of that
\* platform wholesale: afterwards its fields are those of the latest item
\* alone (the app id and the install path of the item; the whole installation
\* built from the item when it can be built), and the installations of the
\* other platforms are unchanged.
C19_ReingestReplacesInstallation ==
    [][(/\ ret'.op = "_process_installation"
        /\ ret'.game \in DOMAIN games
        /\ ret'.platform \in DOMAIN games[ret'.game].installations)
          => LET g == ret'.game
                 p == ret'.platform
                 game_data == ret'.arg
                 installation == games'[g].installations[p]
             IN /\ installation.app_id = game_data.app_id
                /\ (game_data.install_dir \notin {Missing, None})
                      => (installation.install_path
                             = Path(game_data.install_dir))
                /\ (~InstallationRaises(p, game_data))
                      => (installation = InstallationOf(p, g, game_data))
                /\ \A q \in DOMAIN games[g].installations \ {p} :
                      games'[g].installations[q] = games[g].installations[q]
      ]_vars

\* C20: an adapter whose get_installed_games raises does not abort the scan
\* cycle: the other registered adapters are scanned, and the registry the
\* cycle leaves is the one it leaves when the failing adapters return an empty
\* list instead.
C20_RaisingAdapterIsAnEmptyList ==
    [][(ret'.op = "scan_installations")
          => games' = ScanFrom(games, gm_platform_apis,
                               [p \in GamePlatforms |->
                                  IF ret'.arg[p].raised THEN Returned(<<>>)
                                  ELSE ret'.arg[p]], 1)]_vars

\* C20 witness: a scan has ended in which the adapter registered first raised
\* and the adapter registered after it reported a game, which the registry now
\* holds with its installation.
C20_Witness ==
    /\ ret.op = "scan_installations"
    /\ Len(gm_platform_apis) = 2
    /\ ret.arg[gm_platform_apis[1]].raised
    /\ LET q == gm_platform_apis[2] IN
       /\ ~ret.arg[q].raised
       /\ Len(ret.arg[q].games) = 1
       /\ LET game_data == ret.arg[q].games[1]
              g == GameNameOf(game_data)
          IN /\ ~InstallationRaises(q, game_data)
             /\ g \in DOMAIN games
             /\ q \in DOMAIN games[g].installations
             /\ games[g].installations[q] = InstallationOf(q, g, game_data)
             /\ DOMAIN games[g].platforms = {q}

\* Whether _process_installation raises for an item (it does not depend on
\* the registry).
ItemRaises(platform, game_data) ==
    ProcessInstallation(EmptyDict, platform, game_data).raised

\* Whether the scan of one adapter failed: the except clause of line 91 was
\* reached, from get_installed_games or from one of the items.
ScanFailed(platform, result) ==
    \/ result.raised
    \/ \E i \in 1..Len(result.games) : ItemRaises(platform, result.games[i])

\* C21: a scan of a platform that fails leaves every installation of that
\* platform that the registry held before the scan unchanged.
C21_FailedScanKeepsInstallations ==
    [][(ret'.op = "scan_installations")
          => \A p \in GamePlatforms :
                (Registered(gm_platform_apis, p) /\ ScanFailed(p, ret'.arg[p]))
                   => \A g \in DOMAIN games :
                         (p \in DOMAIN games[g].installations)
                            => (games'[g].installations[p]
                                   = games[g].installations[p])]_vars

\* C22: a scan cycle reports the outcome of the adapters to its caller: its
\* result is "failure" when every registered adapter failed and
\* "partial success" when some failed and some succeeded.
C22_ScanReportsOutcome ==
    (ret.op = "scan_installations" /\ Len(gm_platform_apis) > 0)
       => LET failed == { p \in GamePlatforms :
                             /\ Registered(gm_platform_apis, p)
                             /\ ScanFailed(p, ret.arg[p]) }
              scanned == { p \in GamePlatforms :
                              Registered(gm_platform_apis, p) }
          IN /\ (failed = scanned) => (ret.result = "failure")
             /\ (failed # {} /\ failed # scanned)
                   => (ret.result = "partial success")

\* The number of content ids owned for a game on a platform.
CountOf(p) == Cardinality(OwnedOf(owned_content, ret.game, p))

\* The platforms the game of the last call is bound to, in binding order.
BoundOrder ==
    IF ret.game \in DOMAIN games THEN games[ret.game].platform_order ELSE <<>>

\* C23: register_owned_content makes the owned set of its pair the union of
\* the previous set and the given ids and changes the set of no other pair, so
\* no id is ever lost; get_owned_content returns exactly the ids of the set of
\* its pair, each once, and nothing for a pair never registered.
C23_RegisterOwnedIsAUnion ==
    [][/\ (ret'.op = "register_owned_content")
             => /\ OwnedOf(owned_content', ret'.game, ret'.platform)
                      = OwnedOf(owned_content, ret'.game, ret'.platform)
                           \cup Range(ret'.arg)
                /\ \A g \in LibGames, p \in LibPlatforms :
                      (<<g, p>> # <<ret'.game, ret'.platform>>)
                         => (OwnedOf(owned_content', g, p)
                                = OwnedOf(owned_content, g, p))
       /\ (ret'.op = "get_owned_content")
             => /\ Range(ret'.result)
                      = (IF ret'.game \in DOMAIN owned_content
                            /\ ret'.platform \in DOMAIN owned_content[ret'.game]
                         THEN owned_content[ret'.game][ret'.platform]
                         ELSE {})
                /\ Len(ret'.result) = Cardinality(Range(ret'.result))]_vars

\* A registration that added ids to a set that already held another one.
C23_Witness ==
    /\ ret.op = "register_owned_content"
    /\ ret.arg # <<>>
    /\ OwnedOf(owned_content, ret.game, ret.platform) # Range(ret.arg)
    /\ \E p \in LibPlatforms :
          p # ret.platform /\ OwnedOf(owned_content, ret.game, p) # {}

\* C24: when exactly one bound platform has the strictly highest count of owned
\* content and that count is positive, optimize_storage returns it, whatever
\* its position in the binding order.
C24_StrictMaximumWins ==
    (ret.op = "optimize_storage")
       => \A i \in 1..Len(BoundOrder) :
             (/\ CountOf(BoundOrder[i]) > 0
              /\ \A j \in 1..Len(BoundOrder) :
                    (j # i) => (CountOf(BoundOrder[j]) < CountOf(BoundOrder[i])))
                => (ret.result = BoundOrder[i])

\* The platform bound last holds the strict maximum and is returned.
C24_Witness ==
    /\ ret.op = "optimize_storage"
    /\ Len(BoundOrder) = 3
    /\ CountOf(BoundOrder[3]) = 2
    /\ CountOf(BoundOrder[2]) = 1
    /\ CountOf(BoundOrder[1]) = 1
    /\ ret.result = BoundOrder[3]

\* The largest count of owned content among the bound platforms.
MaxCount ==
    CHOOSE n \in 0..Cardinality(ContentIds) :
       /\ \A i \in 1..Len(BoundOrder) : CountOf(BoundOrder[i]) <= n
       /\ (n > 0) => \E i \in 1..Len(BoundOrder) : CountOf(BoundOrder[i]) = n

\* C25 as stated: when no bound platform has a positive count, or two or more
\* tie at the maximum, optimize_storage returns the first platform in binding
\* order, for any number of bound platforms.
C25_TieReturnsFirstBound ==
    (ret.op = "optimize_storage" /\ Len(BoundOrder) > 0)
       => ((\/ MaxCount = 0
            \/ \E i, j \in 1..Len(BoundOrder) :
                  /\ i # j
                  /\ CountOf(BoundOrder[i]) = MaxCount
                  /\ CountOf(BoundOrder[j]) = MaxCount)
              => (ret.result = BoundOrder[1]))

\* C25: when no bound platform has a positive count, or two or more tie at the
\* maximum, optimize_storage returns the first platform, in binding order,
\* among those that hold the maximum count; this is the platform bound first
\* when no count is positive.
C25_TieReturnsFirstOfTheMaxima ==
    (ret.op = "optimize_storage" /\ Len(BoundOrder) > 0)
       => ((\/ MaxCount = 0
            \/ \E i, j \in 1..Len(BoundOrder) :
                  /\ i # j
                  /\ CountOf(BoundOrder[i]) = MaxCount
                  /\ CountOf(BoundOrder[j]) = MaxCount)
              => \E i \in 1..Len(BoundOrder) :
                    /\ ret.result = BoundOrder[i]
                    /\ CountOf(BoundOrder[i]) = MaxCount
                    /\ \A j \in 1..(i - 1) : CountOf(BoundOrder[j]) < MaxCount)

\* Two platforms bound after the first tie at the maximum, and the earlier of
\* the two is returned.
C25_Witness ==
    /\ ret.op = "optimize_storage"
    /\ Len(BoundOrder) = 3
    /\ CountOf(BoundOrder[1]) = 1
    /\ CountOf(BoundOrder[2]) = 2
    /\ CountOf(BoundOrder[3]) = 2
    /\ ret.result = BoundOrder[2]

\* C26: optimize_storage returns None exactly when the game is unknown or has
\* no bindings, and otherwise returns one of the platforms the game is bound
\* to.
C26_OptimizeStorageIsTotal ==
    (ret.op = "optimize_storage")
       => /\ (ret.result = None)
                <=> (\/ ret.game \notin DOMAIN games
                     \/ DOMAIN games[ret.game].platforms = {})
          /\ (ret.result # None)
                => (ret.result \in DOMAIN games[ret.game].platforms)

\* A known game without bindings gets None.
C26_Witness ==
    /\ ret.op = "optimize_storage"
    /\ ret.game \in DOMAIN games
    /\ DOMAIN games[ret.game].platforms = {}
    /\ ret.result = None

\* C30: after an ingest or a scan cycle has returned, game_mappings.json holds
\* every binding of the in-memory registry, so that loading it yields the same
\* games and bindings.
C30_BindingsAreWrittenThrough ==
    (ret.op \in {"_process_installation", "scan_installations"})
       => /\ DOMAIN LoadGameMappings(mapping_file) = DOMAIN games
          /\ \A g \in DOMAIN games :
                LoadGameMappings(mapping_file)[g].platforms = games[g].platforms

\* The registry two calls leave when the first runs to its end before the
\* second starts.
Serial(first, second) ==
    ProcessInstallation(
       ProcessInstallation(EmptyDict, first.platform, first.game_data).games,
       second.platform, second.game_data).games

\* C27: when the ingests of two adapters for the same game name are
\* interleaved, no update is lost: once both have completed the registry is
\* the one some serial order of the two ingests leaves.
C27_InterleavedIngestsAreSerialisable ==
    (/\ \A t \in DOMAIN threads : threads[t].pc = "done"
     /\ DOMAIN threads = Callers
     /\ threads["t1"].platform # threads["t2"].platform
     /\ GameNameOf(threads["t1"].game_data) = GameNameOf(threads["t2"].game_data))
       => \/ games = Serial(threads["t1"], threads["t2"])
          \/ games = Serial(threads["t2"], threads["t1"])

\* C28: a browser-based authenticate releases its listener on every exit path:
\* in the state in which it has returned the port is no longer bound and no
\* thread is waiting for a request on it.
C28_ListenerIsReleased ==
    (flow.pc = "returned") => (~flow.listening /\ ~flow.waiting)

\* The session of gog is not authenticated.
GogUnauthenticated(auths) ==
    ("gog" \in DOMAIN auths) => ~is_authenticated(auths["gog"])

ReloadedGames == LoadGameMappings(SaveGameMappings(games))

\* C31: save_game_mappings followed by _load_game_mappings into a fresh
\* GameManager recovers the same game names, the same bindings and the same
\* active platform of every game.
C31_GameMappingsRoundTrip ==
    /\ DOMAIN ReloadedGames = DOMAIN games
    /\ \A g \in DOMAIN games :
          /\ ReloadedGames[g].platforms = games[g].platforms
          /\ ReloadedGames[g].platform_order = games[g].platform_order
          /\ ReloadedGames[g].active_platform = games[g].active_platform

\* The ledger a fresh UnifiedLibrary loads from the file save_content_mappings
\* writes for the current ledger, for one order of enumerating sets.
ReloadedLedger(enumeration) ==
    LoadContentMappings(EmptyDict, EmptyDict,
       SaveContentMappings(owned_content, shared_installations, enumeration))

LastOfItsName(items, i) ==
    \A j \in (i + 1)..Len(items) :
       GameNameOf(items[j]) # GameNameOf(items[i])

\* C33: within the scan of one adapter the items of its list are ingested in
\* list order and every item that has a name is ingested, whatever happened to
\* the items before it: after the scan every named item's game is bound to the
\* platform, with the app id of the last item of that name.
C33_EveryItemIsIngestedInOrder ==
    [][(ret'.op = "scan_installations")
          => \A p \in GamePlatforms :
                (Registered(gm_platform_apis, p) /\ ~ret'.arg[p].raised)
                   => \A i \in 1..Len(ret'.arg[p].games) :
                         LET items == ret'.arg[p].games
                             game_name == GameNameOf(items[i])
                         IN (game_name \notin {None, ""})
                               => /\ game_name \in DOMAIN games'
                                  /\ p \in DOMAIN games'[game_name].platforms
                                  /\ LastOfItsName(items, i)
                                        => (games'[game_name].platforms[p]
                                               = items[i].app_id)]_vars

C35_GetAccessToken ==
    [][(ret'.op = "get_access_token")
          => /\ ret'.result =
                   (IF /\ ret'.platform \in DOMAIN platform_auths
                       /\ is_authenticated(platform_auths[ret'.platform])
                    THEN platform_auths[ret'.platform].access_token
                    ELSE None)
             /\ platform_auths' = platform_auths
             /\ platform_apis' = platform_apis
             /\ auth_file' = auth_file]_vars

\* C36: after logout(p) the platform p is still registered and can be
\* authenticated again: an authenticate(p) that follows it and whose adapter
\* call succeeds returns True and stores the adapter's new tokens in the
\* session of p.
C36_AuthenticateAfterLogout ==
    [][(/\ ret.op = "logout"
        /\ ret'.op = "authenticate"
        /\ ret'.platform = ret.platform
        /\ ret'.adapter = "True")
          => /\ ret'.result = "True"
             /\ ret'.platform \in DOMAIN platform_auths'
             /\ platform_auths'[ret'.platform].access_token
                   = platform_apis'[ret'.platform].access_token
             /\ platform_auths'[ret'.platform].refresh_token
                   = platform_apis'[ret'.platform].refresh_token]_vars

\* C37: in every reachable registry the installations of a game are keyed by
\* platforms the game is bound to, and the app id of the installation of a
\* platform is the app id bound for that platform.
C37_InstallationsFollowBindings ==
    \A g \in DOMAIN games :
       \A p \in DOMAIN games[g].installations :
          /\ p \in DOMAIN games[g].platforms
          /\ games[g].installations[p].app_id = games[g].platforms[p]

\* C38: the ingest of one item is atomic: when it completes, the binding, the
\* installation and, if none was set, the active platform are all recorded;
\* when processing the item raises, the registry is left as it was before the
\* item.
C38_IngestIsAtomic ==
    [][(ret'.op = "_process_installation")
          => /\ (ret'.result = Raise) => (games' = games)
             /\ (ret'.result # Raise /\ ret'.game \notin {None, ""})
                   => /\ ret'.game \in DOMAIN games'
                      /\ ret'.platform \in DOMAIN games'[ret'.game].platforms
                      /\ ret'.platform
                            \in DOMAIN games'[ret'.game].installations
                      /\ games'[ret'.game].active_platform # None]_vars

\* A list in the opposite order.
Reverse(s) == [i \in 1..Len(s) |-> s[Len(s) + 1 - i]]

====
